---- MODULE Spec2Model ----
(***************************************************************************)
(* A model of the two token fetchers of copilot-llm:                       *)
(*   get_copilot_token.py    device flow, then credential exchange         *)
(*   get_enterprise_token.py existing token (env / gh / prompt), exchange  *)
(* One behaviour of the model is one run of one of the two scripts.        *)
(*                                                                         *)
(* Encoding of Python values                                               *)
(*   token str    a sequence of one-character strings (<<>> is ""): the    *)
(*                program strips, slices and truth-tests tokens            *)
(*   error str    a TLA+ string: the program compares and truth-tests it   *)
(*   dict         a function whose DOMAIN is the set of keys present       *)
(*   None/unbound the empty set; a bound value v is the set {v}            *)
(***************************************************************************)
EXTENDS Integers, Sequences, FiniteSets, TLC

VARIABLES
    script,        \* which script this run executes
    pc,            \* position of the run in main()
    now,           \* time.time(), in seconds
    start_time,    \* main: start_time
    start_data,    \* start_device_flow: data (the device-code response)
    device_data,   \* main: device_data (what start_device_flow returned)
    device_code,   \* main: device_code
    interval,      \* main: interval
    expires_in,    \* main: expires_in
    github_token,  \* main: github_token
    result,        \* main: result (the last poll response)
    copilot_data,  \* main: copilot_data (the exchange response)
    copilot_token, \* main: copilot_token
    expires_at,    \* main: expires_at
    file_github,   \* content of ~/.config/copilot-proxy/github-token
    file_copilot,  \* content of ~/.config/copilot-proxy/copilot-token.json
    exit_code,     \* the process's exit status once it has ended
    outcome,       \* which message the run ended with
    sleeps,        \* number of time.sleep calls completed
    polls,         \* number of poll requests issued
    poll_sent,     \* the latest poll request: when it was sent, the device_code in it
    exchanges,     \* number of exchange requests issued
    exchange_auth, \* the token presented in the Authorization header
    gh_calls,      \* number of times the gh credential helper was run
    prompts,       \* number of times the interactive prompt was shown
    supplied,      \* per token source consulted in this run: what it yielded
    saved          \* which files this run has written

vars == <<script, pc, now, start_time, start_data, device_data, device_code,
          interval, expires_in, github_token, result, copilot_data, copilot_token,
          expires_at, file_github, file_copilot, exit_code, outcome, sleeps,
          polls, poll_sent, exchanges, exchange_auth, gh_calls, prompts, supplied,
          saved>>

-----------------------------------------------------------------------------
(* Bounds of the model *)

\* the clock is not advanced beyond MaxTime
MaxTime == 9
\* the longest a network call takes, and the longest a sleep oversleeps
MaxDelay == 1

(* Program constants *)

\* device_data.get('interval', 5)
DefaultInterval == 5
\* device_data.get('expires_in', 900)
DefaultExpiresIn == 900
\* copilot_data.get('expires_at', 0)
DefaultExpiresAt == 0

-----------------------------------------------------------------------------
(* Python values *)

None == {}
Some(v) == {v}
Val(o) == CHOOSE v \in o : TRUE

EmptyDict == [k \in {} |-> 0]
Restrict(d, K) == [k \in K |-> d[k]]
\* key in d
Has(d, k) == k \in DOMAIN d
\* d.get(k, default)
Get(d, k, default) == IF k \in DOMAIN d THEN d[k] ELSE default

\* d[k] = v
Put(d, k, v) == [x \in DOMAIN d \cup {k} |-> IF x = k THEN v ELSE d[x]]

\* bool(o) of a token that is None or a str
Truthy(o) == o # None /\ Val(o) # <<>>
\* bool(o) of an error that is None or a str
TruthyErr(o) == o # None /\ Val(o) # ""

Whitespace == {" ", "\n"}
RECURSIVE LStrip(_)
LStrip(s) ==
    IF s # <<>> /\ Head(s) \in Whitespace THEN LStrip(Tail(s)) ELSE s
RECURSIVE RStrip(_)
RStrip(s) ==
    IF s # <<>> /\ s[Len(s)] \in Whitespace
    THEN RStrip(SubSeq(s, 1, Len(s) - 1)) ELSE s
\* str.strip()
Strip(s) == RStrip(LStrip(s))

-----------------------------------------------------------------------------
(* What the servers, the environment and the user may supply *)

TokenValues == {<<>>, <<"a">>, <<"b">>}
ErrorValues == {"", "authorization_pending", "access_denied", "slow_down"}

EmptyBody == [kind |-> "empty", obj |-> EmptyDict]
MalformedBody == [kind |-> "malformed", obj |-> EmptyDict]
JsonBody(d) == [kind |-> "json", obj |-> d]
Bodies(dicts) == {EmptyBody, MalformedBody} \cup {JsonBody(d) : d \in dicts}

DeviceKeys == {"error", "device_code", "user_code", "verification_uri",
               "interval", "expires_in"}
DeviceFull ==
    [error : {"", "invalid_client"}, device_code : {<<"x">>, <<"y">>},
     user_code : {<<"u">>}, verification_uri : {<<"v">>},
     interval : {1, 2}, expires_in : {0, 3, 4}]
DeviceKeySets ==
    {K \in SUBSET DeviceKeys :
        \/ {"device_code", "user_code", "verification_uri"} \subseteq K
        \/ Cardinality(K) <= 2}
DeviceDicts == {Restrict(d, K) : d \in DeviceFull, K \in DeviceKeySets}

PollKeys == {"access_token", "error"}
PollFull == [access_token : TokenValues, error : ErrorValues]
PollDicts == {Restrict(d, K) : d \in PollFull, K \in SUBSET PollKeys}

ExchangeKeys == {"token", "expires_at", "error"}
ExchangeFull == [token : {<<>>, <<"t">>}, expires_at : {0, 7}, error : {"not_authorized"}]
ExchangeDicts == {Restrict(d, K) : d \in ExchangeFull, K \in SUBSET ExchangeKeys}

\* os.environ.get("GITHUB_TOKEN")
EnvValues == {None, Some(<<>>), Some(<<"a">>)}
\* what `gh auth token` prints, and what the user types
RawTexts == {<<>>, <<"\n">>, <<"b", "\n">>, <<" ", "b", " ", "c", "\n">>}

\* a file that does not exist
Absent == {}
\* content left by an earlier run: none, the files of a run with another
\* primary token, the files of a run with a primary token this run may get too
StaleFiles == {<<Absent, Absent>>,
               <<Some(<<"o">>), Some([token |-> <<"o">>, expiresAt |-> 1])>>,
               <<Some(<<"a">>), Some([token |-> <<"s">>, expiresAt |-> 1])>>}

-----------------------------------------------------------------------------
(* The functions of the two scripts *)

\* d.get("error")
ErrorOf(d) == IF Has(d, "error") THEN Some(d["error"]) ELSE None

\* make_request, lines 41-44: json.loads(data) if data else {}; json.loads
\* raises on a body that is not JSON
make_request(body) ==
    IF body.kind = "malformed" THEN [raised |-> TRUE, data |-> EmptyDict]
    ELSE IF body.kind = "empty" THEN [raised |-> FALSE, data |-> EmptyDict]
    ELSE [raised |-> FALSE, data |-> body.obj]

\* a variant of DeviceFlowRejected that tests data.get("error") for truth
DeviceFlowRejected_Truthy(data) == TruthyErr(ErrorOf(data))

\* start_device_flow, line 57: if "error" in data
DeviceFlowRejected(data) == Has(data, "error")

\* main, lines 103-111: device_data['verification_uri'], ['user_code'],
\* ['device_code'] raise KeyError on a missing key
DeviceKeyError(data) ==
    ~ ({"verification_uri", "user_code", "device_code"} \subseteq DOMAIN data)

\* a variant of LoopCondition that still loops at the deadline itself
LoopCondition_Inclusive(t, st, exp) == t - st <= exp

\* main, line 118: time.time() - start_time < expires_in
LoopCondition(t, st, exp) == t - st < exp

\* a variant of PollBranch that looks at the error field before access_token
PollBranch_ErrorFirst(res) ==
    IF ErrorOf(res) = Some("authorization_pending") THEN "pending"
    ELSE IF TruthyErr(ErrorOf(res)) THEN "error"
    ELSE IF Has(res, "access_token") THEN "token"
    ELSE "none"

\* a variant of PollBranch without the authorization_pending branch
PollBranch_PendingFatal(res) ==
    IF Has(res, "access_token") THEN "token"
    ELSE IF TruthyErr(ErrorOf(res)) THEN "error"
    ELSE "none"

\* main, lines 123-132: which branch of the if/elif chain a poll response takes
PollBranch(res) ==
    IF Has(res, "access_token") THEN "token"
    ELSE IF ErrorOf(res) = Some("authorization_pending") THEN "pending"
    ELSE IF TruthyErr(ErrorOf(res)) THEN "error"
    ELSE "none"

\* a variant of NoToken that tests github_token is None
NoToken_NoneOnly(tok) == tok = None

\* main, line 134: if not github_token
NoToken(tok) == ~ Truthy(tok)

\* main, line 145 / line 98: if "token" in copilot_data
ExchangeAccepted(data) == Has(data, "token")

\* a variant of SecondaryToken that defaults expires_at to the wrong constant
SecondaryToken_WrongDefault(data) ==
    [token |-> data["token"],
     expiresAt |-> Get(data, "expires_at", DefaultExpiresIn)]

\* main, lines 146-147 / 99-100: copilot_token and expires_at
SecondaryToken(data) ==
    [token |-> data["token"],
     expiresAt |-> Get(data, "expires_at", DefaultExpiresAt)]

\* the exit status after "Failed to get Copilot token": get_copilot_token.py
\* falls off the end of main (lines 198-202), get_enterprise_token.py calls
\* sys.exit(1) (line 142)
ExchangeFailureStatus(s) == IF s = "copilot" THEN 0 ELSE 1

\* get_gh_token, lines 24-35: stdout.strip() on returncode 0, else None
get_gh_token(run) == IF run.ok THEN Some(Strip(run.stdout)) ELSE None

\* what subprocess.run(["gh", "auth", "token"]) may do: fail (an exception or
\* a non-zero return code) or print a text
GhRuns ==
    {[ok |-> FALSE, stdout |-> <<>>]} \cup {[ok |-> TRUE, stdout |-> t] : t \in RawTexts}

\* copilot-token.json after open(..., "w") succeeded and json.dump failed
TruncatedDocument == [token |-> <<>>, expiresAt |-> -1, truncated |-> TRUE]

\* a variant of TokenDocument that drops the expiry
TokenDocument_ZeroExpiry(tok, exp) == [token |-> tok, expiresAt |-> DefaultExpiresAt]

\* json.dump({"token": copilot_token, "expiresAt": expires_at}, f)
TokenDocument(tok, exp) == [token |-> tok, expiresAt |-> exp]

-----------------------------------------------------------------------------
(* The state after construction *)

Scripts == {"copilot", "enterprise"}

deviceVars == <<start_data, device_data, device_code, interval, expires_in, start_time>>
pollVars == <<result, sleeps, polls, poll_sent>>
exchangeVars == <<copilot_data, copilot_token, expires_at, exchanges, exchange_auth>>
fileVars == <<file_github, file_copilot, saved>>
helperVars == <<gh_calls, prompts>>
exitVars == <<exit_code, outcome>>

Init ==
    /\ script \in Scripts
    /\ pc = IF script = "copilot" THEN "start" ELSE "env"
    /\ now = 0
    /\ start_time = None
    /\ start_data = None
    /\ device_data = None
    /\ device_code = None
    /\ interval = None
    /\ expires_in = None
    /\ github_token = None
    /\ result = None
    /\ copilot_data = None
    /\ copilot_token = None
    /\ expires_at = None
    /\ \E f \in StaleFiles : file_github = f[1] /\ file_copilot = f[2]
    /\ exit_code = None
    /\ outcome = "running"
    /\ sleeps = 0
    /\ polls = 0
    /\ poll_sent = None
    /\ exchanges = 0
    /\ exchange_auth = None
    /\ gh_calls = 0
    /\ prompts = 0
    /\ supplied = EmptyDict
    /\ saved = {}

-----------------------------------------------------------------------------
(* The steps of get_copilot_token.py *)

\* sys.exit(code), an uncaught exception (status 1) or the end of main (0)
Exit(code, msg) ==
    /\ exit_code' = Some(code)
    /\ outcome' = msg
    /\ pc' = "exited"

\* a variant of AfterLoop without the test of line 134
AfterLoop_NoCheck(tok) == pc' = "exchange" /\ UNCHANGED exitVars

\* main, lines 134-143: after the loop, with github_token = tok
AfterLoop(tok) ==
    IF NoToken(tok)
    THEN Exit(1, "timeout")
    ELSE pc' = "exchange" /\ UNCHANGED exitVars

\* main, lines 101-114: start_device_flow() and the reading of its result
StartDeviceFlow ==
    /\ pc = "start"
    /\ \E body \in Bodies(DeviceDicts), d \in 0..MaxDelay :
        LET r == make_request(body) IN
        /\ now' = now + d
        /\ IF r.raised
           THEN /\ Exit(1, "exception")
                /\ UNCHANGED deviceVars
           ELSE /\ start_data' = Some(r.data)
                /\ IF DeviceFlowRejected(r.data)
                   THEN /\ Exit(1, "device_error")
                        /\ UNCHANGED <<device_data, device_code, interval,
                                       expires_in, start_time>>
                   ELSE /\ device_data' = Some(r.data)
                        /\ IF DeviceKeyError(r.data)
                           THEN /\ Exit(1, "exception")
                                /\ UNCHANGED <<device_code, interval,
                                               expires_in, start_time>>
                           ELSE /\ device_code' = Some(r.data["device_code"])
                                /\ interval' =
                                     Some(Get(r.data, "interval", DefaultInterval))
                                /\ expires_in' =
                                     Some(Get(r.data, "expires_in", DefaultExpiresIn))
                                /\ start_time' = Some(now')
                                /\ pc' = "loop_test"
                                /\ UNCHANGED exitVars
    /\ UNCHANGED <<script, supplied, github_token, pollVars, exchangeVars, fileVars, helperVars>>

\* a variant of LoopTest for a loop that polls first and sleeps afterwards
LoopTest_PollFirst ==
    /\ pc = "loop_test"
    /\ IF LoopCondition(now, Val(start_time), Val(expires_in))
       THEN pc' = "poll_send" /\ UNCHANGED exitVars
       ELSE AfterLoop(github_token)
    /\ UNCHANGED <<script, supplied, now, github_token, deviceVars, pollVars,
                   exchangeVars, fileVars, helperVars>>

\* main, line 118 (and lines 134-137 when the condition is false)
LoopTest ==
    /\ pc = "loop_test"
    /\ IF LoopCondition(now, Val(start_time), Val(expires_in))
       THEN pc' = "sleep" /\ UNCHANGED exitVars
       ELSE AfterLoop(github_token)
    /\ UNCHANGED <<script, supplied, now, github_token, deviceVars, pollVars, exchangeVars,
                   fileVars, helperVars>>

\* main, line 119: time.sleep(interval) returns after interval seconds or more
Sleep ==
    /\ pc = "sleep"
    /\ \E d \in 0..MaxDelay :
        /\ now + Val(interval) + d <= MaxTime
        /\ now' = now + Val(interval) + d
    /\ sleeps' = sleeps + 1
    /\ pc' = "poll_send"
    /\ UNCHANGED <<script, supplied, github_token, deviceVars, result, polls, poll_sent,
                   exchangeVars, fileVars, helperVars, exitVars>>

\* a variant of PollSend that sends the user_code in place of the device_code
PollSend_UserCode ==
    /\ pc = "poll_send"
    /\ polls' = polls + 1
    /\ poll_sent' = Some([at |-> now, device_code |-> Val(device_data)["user_code"]])
    /\ pc' = "poll_wait"
    /\ UNCHANGED <<script, supplied, now, github_token, deviceVars, result, sleeps,
                   exchangeVars, fileVars, helperVars, exitVars>>

\* poll_for_token, lines 65-73 with make_request line 38: the request is sent
PollSend ==
    /\ pc = "poll_send"
    /\ polls' = polls + 1
    /\ poll_sent' = Some([at |-> now, device_code |-> Val(device_code)])
    /\ pc' = "poll_wait"
    /\ UNCHANGED <<script, supplied, now, github_token, deviceVars, result, sleeps,
                   exchangeVars, fileVars, helperVars, exitVars>>

\* make_request lines 39-44 and main lines 121-132: the response arrives and
\* is handled
PollReceive ==
    /\ pc = "poll_wait"
    /\ \E body \in Bodies(PollDicts), d \in 0..MaxDelay :
        LET r == make_request(body) IN
        /\ now + d <= MaxTime
        /\ now' = now + d
        /\ IF r.raised
           THEN /\ Exit(1, "exception")
                /\ UNCHANGED <<result, github_token, supplied>>
           ELSE /\ result' = Some(r.data)
                /\ CASE PollBranch(r.data) = "token" ->
                          LET tok == Some(r.data["access_token"]) IN
                          /\ github_token' = tok
                          /\ supplied' = Put(supplied, "device", tok)
                          /\ AfterLoop(tok)
                     [] PollBranch(r.data) = "error" ->
                          /\ Exit(1, "auth_error")
                          /\ UNCHANGED <<github_token, supplied>>
                     [] OTHER ->
                          /\ pc' = "loop_test"
                          /\ UNCHANGED <<github_token, supplied, exitVars>>
    /\ UNCHANGED <<script, deviceVars, sleeps, polls, poll_sent, exchangeVars,
                   fileVars, helperVars>>

-----------------------------------------------------------------------------
(* The steps of get_enterprise_token.py before the exchange *)

\* a variant of ReadEnv that tests github_token is None at lines 68 and 73
ReadEnv_NoneOnly ==
    /\ pc = "env"
    /\ \E v \in EnvValues :
        /\ github_token' = v
        /\ supplied' = Put(supplied, "env", v)
        /\ pc' = IF v # None THEN "exchange" ELSE "gh"
    /\ UNCHANGED <<script, now, deviceVars, pollVars, exchangeVars, fileVars,
                   helperVars, exitVars>>

\* main, lines 66-68 and 73: os.environ.get("GITHUB_TOKEN")
ReadEnv ==
    /\ pc = "env"
    /\ \E v \in EnvValues :
        /\ github_token' = v
        /\ supplied' = Put(supplied, "env", v)
        /\ pc' = IF Truthy(v) THEN "exchange" ELSE "gh"
    /\ UNCHANGED <<script, now, deviceVars, pollVars, exchangeVars, fileVars,
                   helperVars, exitVars>>

\* main, lines 68-73: get_gh_token()
GhCli ==
    /\ pc = "gh"
    /\ gh_calls' = gh_calls + 1
    /\ \E run \in GhRuns :
        /\ github_token' = get_gh_token(run)
        /\ supplied' = Put(supplied, "gh", get_gh_token(run))
        /\ pc' = IF Truthy(get_gh_token(run)) THEN "exchange" ELSE "prompt"
    /\ UNCHANGED <<script, now, deviceVars, pollVars, exchangeVars, fileVars,
                   prompts, exitVars>>

\* main, lines 75-91: input("Enter your GitHub token: ").strip(); input raises
\* EOFError when standard input is closed (typed = None)
Prompt ==
    /\ pc = "prompt"
    /\ prompts' = prompts + 1
    /\ \E typed \in {None} \cup {Some(t) : t \in RawTexts} :
        IF typed = None
        THEN Exit(1, "exception") /\ UNCHANGED <<github_token, supplied>>
        ELSE LET tok == Some(Strip(Val(typed))) IN
             /\ github_token' = tok
             /\ supplied' = Put(supplied, "prompt", tok)
             /\ IF NoToken(tok)
                THEN Exit(1, "no_token")
                ELSE pc' = "exchange" /\ UNCHANGED exitVars
    /\ UNCHANGED <<script, now, deviceVars, pollVars, exchangeVars, fileVars,
                   gh_calls>>

-----------------------------------------------------------------------------
(* The steps the two scripts share *)

\* a variant of ExchangeResult that reads expires_at before testing for token
ExchangeResult_ExpiryFirst(data) ==
    /\ expires_at' = Some(Get(data, "expires_at", DefaultExpiresAt))
    /\ IF ExchangeAccepted(data)
       THEN /\ copilot_token' = Some(data["token"])
            /\ pc' = "save_dir"
            /\ UNCHANGED exitVars
       ELSE /\ Exit(ExchangeFailureStatus(script), "exchange_failed")
            /\ UNCHANGED copilot_token

\* a variant of ExchangeResult that sends the request again when the response
\* lacks token
ExchangeResult_Retry(data) ==
    IF ExchangeAccepted(data)
    THEN /\ copilot_token' = Some(SecondaryToken(data).token)
         /\ expires_at' = Some(SecondaryToken(data).expiresAt)
         /\ pc' = "save_dir"
         /\ UNCHANGED exitVars
    ELSE /\ pc' = "exchange"
         /\ UNCHANGED <<copilot_token, expires_at, exitVars>>

\* main, lines 145-147 and 198-202 (copilot), lines 98-100 and 135-142
\* (enterprise): what main does with the exchange response
ExchangeResult(data) ==
    IF ExchangeAccepted(data)
    THEN /\ copilot_token' = Some(SecondaryToken(data).token)
         /\ expires_at' = Some(SecondaryToken(data).expiresAt)
         /\ pc' = "save_dir"
         /\ UNCHANGED exitVars
    ELSE /\ Exit(ExchangeFailureStatus(script), "exchange_failed")
         /\ UNCHANGED <<copilot_token, expires_at>>

\* get_copilot_token and main line 143 (copilot), line 96 (enterprise): the
\* request and its response. The clock is not read after the loop.
Exchange ==
    /\ pc = "exchange"
    /\ exchanges' = exchanges + 1
    /\ exchange_auth' = github_token
    /\ \E body \in Bodies(ExchangeDicts) :
        LET r == make_request(body) IN
        IF r.raised
        THEN /\ Exit(1, "exception")
             /\ UNCHANGED <<copilot_data, copilot_token, expires_at>>
        ELSE /\ copilot_data' = Some(r.data)
             /\ ExchangeResult(r.data)
    /\ UNCHANGED <<script, supplied, now, github_token, deviceVars, pollVars, fileVars,
                   helperVars>>

\* a variant of SaveFailed that ends the run in failure
SaveFailed_Fatal == Exit(1, "not_saved")

\* the except clause, lines 195-196 / 132-133, then the end of main
SaveFailed == Exit(0, "not_saved")

\* main, lines 182-183 / 120-121: os.makedirs(config_dir, exist_ok=True)
SaveDir ==
    /\ pc = "save_dir"
    /\ \E ok \in BOOLEAN :
        IF ok THEN pc' = "save_github" /\ UNCHANGED exitVars ELSE SaveFailed
    /\ UNCHANGED <<script, supplied, now, github_token, deviceVars, pollVars, exchangeVars,
                   fileVars, helperVars>>

\* main, lines 186-187 / 123-124: open(..., "w") truncates the file, write fills it
SaveGithub ==
    /\ pc = "save_github"
    /\ \E how \in {"ok", "open_fails", "write_fails"} :
        CASE how = "ok" ->
               /\ file_github' = github_token
               /\ saved' = saved \cup {"github-token"}
               /\ pc' = "save_copilot"
               /\ UNCHANGED exitVars
          [] how = "open_fails" ->
               /\ SaveFailed
               /\ UNCHANGED <<file_github, saved>>
          [] how = "write_fails" ->
               /\ file_github' = Some(<<>>)
               /\ SaveFailed
               /\ UNCHANGED saved
    /\ UNCHANGED <<script, supplied, now, github_token, deviceVars, pollVars, exchangeVars,
                   file_copilot, helperVars>>

\* main, lines 190-194 / 126-131, then the end of main
SaveCopilot ==
    /\ pc = "save_copilot"
    /\ \E how \in {"ok", "open_fails", "write_fails"} :
        CASE how = "ok" ->
               /\ file_copilot' =
                    Some(TokenDocument(Val(copilot_token), Val(expires_at)))
               /\ saved' = saved \cup {"copilot-token.json"}
               /\ Exit(0, "saved")
          [] how = "open_fails" ->
               /\ SaveFailed
               /\ UNCHANGED <<file_copilot, saved>>
          [] how = "write_fails" ->
               /\ file_copilot' = Some(TruncatedDocument)
               /\ SaveFailed
               /\ UNCHANGED saved
    /\ UNCHANGED <<script, supplied, now, github_token, deviceVars, pollVars, exchangeVars,
                   file_github, helperVars>>

-----------------------------------------------------------------------------

Next ==
    \/ StartDeviceFlow
    \/ LoopTest
    \/ Sleep
    \/ PollSend
    \/ PollReceive
    \/ ReadEnv
    \/ GhCli
    \/ Prompt
    \/ Exchange
    \/ SaveDir
    \/ SaveGithub
    \/ SaveCopilot

Spec == Init /\ [][Next]_vars

-----------------------------------------------------------------------------
(* Vocabulary of the properties *)

\* the positions inside the while loop of lines 118-132
LoopPcs == {"loop_test", "sleep", "poll_send", "poll_wait"}
\* seconds since start_time
Elapsed == now - Val(start_time)
\* the last poll response carries the key k
ResultHas(k) == result # None /\ k \in DOMAIN Val(result)
\* the last poll response carries error = authorization_pending
ResultPending ==
    ResultHas("error") /\ Val(result)["error"] = "authorization_pending"
\* this step is the arrival of a poll response that decoded
PollAnswered == pc = "poll_wait" /\ pc' # "poll_wait" /\ outcome' # "exception"
\* the run goes on to the exchange with the token it holds
Proceeds ==
    \/ pc = "exchange"
    \/ exchanges = 1 /\ exchange_auth = github_token

-----------------------------------------------------------------------------
(* C1 - deadline of the polling loop *)

\* C1: once the time elapsed since start_time is >= expires_in, no
\* sleep-then-poll cycle is begun, no poll request is sent, and no token that a
\* poll delivers is accepted.
C1_NothingAtOrAfterDeadline ==
    script = "copilot" =>
        /\ pc = "sleep" => Elapsed < Val(expires_in)
        /\ poll_sent # None =>
             Val(poll_sent).at - Val(start_time) < Val(expires_in)
        /\ pc = "exchange" => Elapsed < Val(expires_in)

-----------------------------------------------------------------------------
(* C2 - a response with access_token ends the loop *)

\* C2 as stated: after any poll response with access_token the run is out of
\* the loop and proceeds to the exchange with exactly that token, whatever the
\* token's value.
C2_AnyTokenProceeds ==
    (script = "copilot" /\ ResultHas("access_token")) =>
        /\ pc \notin LoopPcs
        /\ github_token = Some(Val(result)["access_token"])
        /\ Proceeds

\* C2 amended: after any poll response with access_token the run is out of the
\* loop for good and holds exactly that token; with a non-empty token it
\* proceeds to the exchange with it, with an empty token it ends with the
\* timeout failure and sends no exchange request.
C2_TokenEndsLoop ==
    (script = "copilot" /\ ResultHas("access_token")) =>
        /\ pc \notin LoopPcs
        /\ github_token = Some(Val(result)["access_token"])
        /\ IF Val(result)["access_token"] # <<>>
           THEN Proceeds /\ outcome \notin {"timeout", "auth_error"}
           ELSE /\ pc = "exited"
                /\ exit_code = Some(1)
                /\ outcome = "timeout"
                /\ exchanges = 0

\* C2 witness: a response with both access_token and a fatal error was
\* received and its token was presented to the exchange.
C2_Witness ==
    /\ script = "copilot"
    /\ ResultHas("access_token")
    /\ ResultHas("error")
    /\ Val(result)["error"] = "access_denied"
    /\ exchanges = 1
    /\ exchange_auth = Some(<<"a">>)

-----------------------------------------------------------------------------
(* C3 - authorization_pending *)

\* C3 as stated: after a response with error = authorization_pending the run
\* is unresolved and one more sleep-then-poll cycle follows.
C3_PendingAlwaysCycles ==
    (script = "copilot" /\ ResultPending) =>
        /\ exit_code = None
        /\ github_token = None
        /\ pc \in LoopPcs
        /\ pc = "loop_test" => Elapsed < Val(expires_in)

\* C3 amended: a response with error = authorization_pending and no
\* access_token leaves the run unresolved at the loop test; from there exactly
\* one sleep and then exactly one poll request follow when the elapsed time is
\* below expires_in, and the run ends with the timeout failure otherwise.
C3_PendingCyclesBeforeDeadline ==
    [][(script = "copilot" /\ ResultPending' /\ ~ResultHas("access_token")') =>
        /\ PollAnswered =>
             /\ pc' = "loop_test"
             /\ exit_code' = None
             /\ github_token' = None
             /\ sleeps' = sleeps /\ polls' = polls
        /\ pc = "loop_test" =>
             IF Elapsed < Val(expires_in)
             THEN pc' = "sleep" /\ sleeps' = sleeps /\ polls' = polls
             ELSE pc' = "exited" /\ outcome' = "timeout" /\ exit_code' = Some(1)
        /\ pc = "sleep" =>
             pc' = "poll_send" /\ sleeps' = sleeps + 1 /\ polls' = polls
        /\ pc = "poll_send" =>
             pc' = "poll_wait" /\ sleeps' = sleeps /\ polls' = polls + 1
      ]_vars

\* C3 witness: a poll request is in flight that was sent after a pending
\* response.
C3_Witness ==
    /\ script = "copilot"
    /\ ResultPending
    /\ ~ResultHas("access_token")
    /\ pc = "poll_wait"
    /\ polls = 2
    /\ sleeps = 2

-----------------------------------------------------------------------------
(* C4 - fatal poll errors *)

\* C4: a poll response without access_token whose error is anything but
\* authorization_pending ends the run in the authorization failure at once,
\* with no exchange request; and the run stays in the loop after a response
\* only if that response was authorization_pending.
C4_OnlyPendingProlongs ==
    (script = "copilot" /\ result # None /\ ~ResultHas("access_token")) =>
        /\ (ResultHas("error") /\ ~ResultPending) =>
             /\ pc = "exited"
             /\ exit_code = Some(1)
             /\ outcome = "auth_error"
             /\ exchanges = 0
        /\ pc \in LoopPcs => ResultPending

-----------------------------------------------------------------------------
(* C5 - a rejected device-code request *)

\* C5: when the device-code response contains an error field, the run has
\* ended in failure and has slept, polled and exchanged nothing.
C5_DeviceErrorStopsFlow ==
    (start_data # None /\ "error" \in DOMAIN Val(start_data)) =>
        /\ pc = "exited"
        /\ exit_code = Some(1)
        /\ outcome = "device_error"
        /\ sleeps = 0
        /\ polls = 0
        /\ poll_sent = None
        /\ exchanges = 0

\* C5 witness: the run ended on a device-code response that was complete but
\* for an error field, and that field was empty.
C5_Witness ==
    /\ pc = "exited"
    /\ start_data # None
    /\ DOMAIN Val(start_data) = DeviceKeys
    /\ Val(start_data)["error"] = ""

-----------------------------------------------------------------------------
(* C6 - poll responses that say nothing *)

\* C6: a poll response that failed to decode, or that carries neither
\* access_token nor error, does not send the run round the loop again.
C6_SilentResponseNotRetried ==
    (script = "copilot" /\ result # None
        /\ ~ResultHas("access_token") /\ ~ResultHas("error")) =>
        pc \notin LoopPcs

-----------------------------------------------------------------------------
(* C7 - the states of the device flow *)

\* The state of the device flow. An uncaught exception before the exchange
\* (a reply that is not JSON, a device-code reply without a required key)
\* counts as SERVER_ERROR. NONE: past the loop without a token.
FlowState ==
    IF pc = "start" THEN "STARTED"
    ELSE IF pc \in LoopPcs THEN "POLLING"
    ELSE IF outcome = "device_error" THEN "SERVER_ERROR"
    ELSE IF outcome = "auth_error" THEN "DENIED"
    ELSE IF outcome = "timeout" THEN "EXPIRED"
    ELSE IF outcome = "exception" /\ exchanges = 0 THEN "SERVER_ERROR"
    ELSE IF ResultHas("access_token") /\ github_token # None
            /\ github_token # Some(<<>>) THEN "AUTHORIZED"
    ELSE "NONE"

TerminalStates == {"AUTHORIZED", "DENIED", "EXPIRED", "SERVER_ERROR"}

\* C7: the flow moves from STARTED to POLLING to one of AUTHORIZED, DENIED,
\* EXPIRED, SERVER_ERROR and never back; a terminal state is never left; sleeps
\* and poll requests happen in POLLING only; and an exchange request is sent
\* only in AUTHORIZED.
C7_FlowStateMachine ==
    [][script = "copilot" =>
        /\ FlowState' \in {"STARTED", "POLLING"} \cup TerminalStates
        /\ FlowState' = "STARTED" => FlowState = "STARTED"
        /\ FlowState' = "POLLING" => FlowState \in {"STARTED", "POLLING"}
        /\ FlowState \in TerminalStates => FlowState' = FlowState
        /\ (polls' # polls \/ sleeps' # sleeps) =>
             FlowState = "POLLING" /\ FlowState' = "POLLING"
        /\ exchanges' # exchanges => FlowState = "AUTHORIZED"
      ]_vars

\* C7 witness: the exchange request has been sent after two polls.
C7_Witness ==
    /\ script = "copilot"
    /\ FlowState = "AUTHORIZED"
    /\ polls = 2
    /\ exchanges = 1

-----------------------------------------------------------------------------
(* C8 - fatal conditions *)

\* the exchange response lacks token
ExchangeRejected == copilot_data # None /\ "token" \notin DOMAIN Val(copilot_data)

\* C8: after a device-code error, a fatal authorization error, a polling
\* timeout or a rejected exchange the run, in either script, has ended with a
\* non-zero exit status and has written neither file.
C8_FatalAbortsWithFailure ==
    (outcome \in {"device_error", "auth_error", "timeout"} \/ ExchangeRejected) =>
        /\ pc = "exited"
        /\ exit_code # None
        /\ exit_code # Some(0)
        /\ saved = {}

-----------------------------------------------------------------------------
(* C9 - a rejected exchange yields no secondary token *)

\* C9: when the exchange response lacks token, the run, in either script, has
\* ended with the exchange failure, neither copilot_token nor expires_at was
\* ever bound, and no file was written.
C9_NoPartialSecondaryToken ==
    ExchangeRejected =>
        /\ pc = "exited"
        /\ outcome = "exchange_failed"
        /\ copilot_token = None
        /\ expires_at = None
        /\ saved = {}
        /\ \E f \in StaleFiles : file_github = f[1] /\ file_copilot = f[2]

\* C9 witness: the exchange answered with expires_at and error but no token.
C9_Witness ==
    /\ ExchangeRejected
    /\ DOMAIN Val(copilot_data) = {"expires_at", "error"}
    /\ pc = "exited"

-----------------------------------------------------------------------------
(* C10 - the secondary token of an accepted exchange *)

\* C10: when the exchange response contains token, in either script
\* copilot_token is the response's token and expires_at is the response's
\* expires_at, or 0 when the response has none.
C10_SecondaryTokenFromResponse ==
    (copilot_data # None /\ "token" \in DOMAIN Val(copilot_data)) =>
        /\ copilot_token = Some(Val(copilot_data)["token"])
        /\ expires_at =
             IF "expires_at" \in DOMAIN Val(copilot_data)
             THEN Some(Val(copilot_data)["expires_at"])
             ELSE Some(0)

\* C10 witness: an exchange response with token and without expires_at was
\* accepted.
C10_Witness ==
    /\ copilot_data # None
    /\ DOMAIN Val(copilot_data) = {"token"}
    /\ copilot_token = Some(<<"t">>)
    /\ expires_at = Some(0)

-----------------------------------------------------------------------------
(* C11 - one exchange request per invocation *)

\* C11: an invocation sends at most one exchange request; the step that
\* leaves the exchange position sends exactly one, carrying the token the run
\* holds, whatever an earlier invocation left in the files; no other step
\* sends one; and a response or a secondary token exists only after a request.
C11_OneRequestPerInvocation ==
    [][/\ exchanges' \in {0, 1}
       /\ (pc = "exchange" /\ pc' # "exchange") =>
            exchanges' = exchanges + 1 /\ exchange_auth' = github_token
       /\ pc # "exchange" => exchanges' = exchanges
       /\ (copilot_data' # None \/ copilot_token' # None) => exchanges' = 1
      ]_vars

\* C11 witness: an earlier invocation with primary token "a" left its files,
\* this invocation presented "a" again in a request of its own and got a
\* secondary token that differs from the one on file.
C11_Witness ==
    /\ saved = {}
    /\ file_github = Some(<<"a">>)
    /\ file_copilot = Some([token |-> <<"s">>, expiresAt |-> 1])
    /\ exchanges = 1
    /\ exchange_auth = Some(<<"a">>)
    /\ copilot_token = Some(<<"t">>)
    /\ expires_at = Some(7)

-----------------------------------------------------------------------------
(* C12 - the primary token presented to the exchange *)

\* the source consulted last in this run
LastSource ==
    IF "device" \in DOMAIN supplied THEN "device"
    ELSE IF "prompt" \in DOMAIN supplied THEN "prompt"
    ELSE IF "gh" \in DOMAIN supplied THEN "gh"
    ELSE "env"

\* C12: whenever the run is at the exchange or has sent the exchange request,
\* github_token is bound and non-empty and is what a source consulted in this
\* run yielded (the device flow in get_copilot_token.py; the environment, the
\* helper or the prompt in get_enterprise_token.py); the request carried that
\* token.
C12_ExchangeTokenFromThisRun ==
    (pc = "exchange" \/ exchanges > 0) =>
        /\ github_token # None
        /\ Val(github_token) # <<>>
        /\ supplied # EmptyDict
        /\ DOMAIN supplied \subseteq
             (IF script = "copilot" THEN {"device"} ELSE {"env", "gh", "prompt"})
        /\ github_token = supplied[LastSource]
        /\ exchanges > 0 => exchange_auth = github_token

\* C12 witness: the files of an earlier run hold "o" and the request carried
\* the token typed at the prompt.
C12_Witness ==
    /\ saved = {}
    /\ file_github = Some(<<"o">>)
    /\ LastSource = "prompt"
    /\ exchanges = 1
    /\ exchange_auth = Some(<<"b", " ", "c">>)

-----------------------------------------------------------------------------
(* C13 - one sleep before every poll *)

\* C13 as stated: at every point of the run the polls sent are as many as the
\* sleeps completed.
C13_PollsAlwaysEqualSleeps == script = "copilot" => sleeps = polls

\* C13 amended: interval is the device-code response's interval, or 5 when it has
\* none; the polls sent are as many as the sleeps completed, but for the
\* moment between the end of a sleep and the sending of its poll, when there is
\* one sleep more; and the n-th poll is sent no earlier than n intervals after
\* start_time, so the first is never sent before one full interval.
C13_SleepBeforeEveryPoll ==
    (script = "copilot" /\ interval # None) =>
        /\ interval =
             Some(IF "interval" \in DOMAIN Val(device_data)
                  THEN Val(device_data)["interval"] ELSE 5)
        /\ sleeps = (IF pc = "poll_send" THEN polls + 1 ELSE polls)
        /\ (polls > 0) = (poll_sent # None)
        /\ poll_sent # None =>
             Val(poll_sent).at - Val(start_time) >= polls * Val(interval)

\* C13 witness: the device-code response had no interval and the first poll
\* was sent five seconds after start_time.
C13_Witness ==
    /\ script = "copilot"
    /\ device_data # None
    /\ "interval" \notin DOMAIN Val(device_data)
    /\ pc = "poll_wait"
    /\ polls = 1
    /\ Val(poll_sent).at - Val(start_time) = 5

-----------------------------------------------------------------------------
(* C14 - the device authorization does not change *)

\* C14: once read from the device-code response, device_data, device_code,
\* interval and expires_in never change, whatever the polls answer, and every
\* poll request carries the device_code of the device-code response.
C14_DeviceAuthorizationImmutable ==
    [][script = "copilot" =>
        /\ device_data # None => device_data' = device_data
        /\ device_code # None =>
             /\ device_code' = device_code
             /\ interval' = interval
             /\ expires_in' = expires_in
             /\ device_code' = Some(Val(device_data')["device_code"])
        /\ poll_sent' # None =>
             Val(poll_sent').device_code = Val(device_data')["device_code"]
      ]_vars

\* C14 witness: the second poll was answered slow_down, and the interval is
\* still the one of the device-code response.
C14_Witness ==
    /\ script = "copilot"
    /\ polls = 2
    /\ ResultHas("error")
    /\ Val(result)["error"] = "slow_down"
    /\ Val(device_data)["interval"] = 2
    /\ interval = Some(2)
    /\ Val(poll_sent).device_code = <<"y">>

-----------------------------------------------------------------------------
(* C15 - the order of the token sources of get_enterprise_token.py *)

\* the source src was consulted and yielded a non-empty token
Yielded(src) ==
    /\ src \in DOMAIN supplied
    /\ supplied[src] # None
    /\ Val(supplied[src]) # <<>>

\* C15: the helper is run at most once and only after the environment
\* variable was read and was absent or empty; the prompt is shown at most once
\* and only after the helper ran and yielded no non-empty token; past the
\* sources the run holds the token of the first source that yielded one; and
\* an empty answer at the prompt ends the run in failure with no exchange
\* request.
C15_SourcePriority ==
    script = "enterprise" =>
        /\ gh_calls = (IF "gh" \in DOMAIN supplied THEN 1 ELSE 0)
        /\ prompts \in {0, 1}
        /\ "prompt" \in DOMAIN supplied => prompts = 1
        /\ pc # "env" => "env" \in DOMAIN supplied
        /\ Yielded("env") =>
             gh_calls = 0 /\ prompts = 0 /\ github_token = supplied["env"]
        /\ gh_calls > 0 => ~Yielded("env")
        /\ (pc \notin {"env", "gh"} /\ ~Yielded("env")) => gh_calls = 1
        /\ Yielded("gh") => prompts = 0 /\ github_token = supplied["gh"]
        /\ (prompts > 0 \/ pc = "prompt") =>
             gh_calls = 1 /\ ~Yielded("env") /\ ~Yielded("gh")
        /\ (pc \notin {"env", "gh", "prompt"}
              /\ ~Yielded("env") /\ ~Yielded("gh")) => prompts = 1
        /\ ("prompt" \in DOMAIN supplied /\ ~Yielded("prompt")) =>
             /\ pc = "exited"
             /\ exit_code = Some(1)
             /\ outcome = "no_token"
             /\ exchanges = 0

\* C15 witness: the environment variable was set but empty, the helper
\* printed only a newline, and the token typed at the prompt was exchanged.
C15_Witness ==
    /\ script = "enterprise"
    /\ "env" \in DOMAIN supplied
    /\ supplied["env"] = Some(<<>>)
    /\ "gh" \in DOMAIN supplied
    /\ supplied["gh"] = Some(<<>>)
    /\ Yielded("prompt")
    /\ exchanges = 1

-----------------------------------------------------------------------------
(* C16 - what the files hold after a successful exchange *)

-----------------------------------------------------------------------------
(* C17 - the polling loop ends *)

\* ceil(a / b) for b > 0
CeilDiv(a, b) == (a + b - 1) \div b
\* the most polls a run with these expires_in and interval can send
MostPolls(exp, int) == IF exp <= 0 THEN 0 ELSE CeilDiv(exp, int)

\* C17: with interval >= 1 the run never sends more than
\* ceil(expires_in / interval) polls, whatever the responses; at the loop test
\* with that many polls sent it ends with the timeout failure; and with
\* expires_in <= 0 it sends none and ends with the timeout failure.
C17_PollingTerminates ==
    [][(script = "copilot" /\ expires_in # None /\ Val(interval) >= 1) =>
        /\ polls' <= MostPolls(Val(expires_in), Val(interval))
        /\ sleeps' <= MostPolls(Val(expires_in), Val(interval))
        /\ (pc = "loop_test"
              /\ polls >= MostPolls(Val(expires_in), Val(interval))) =>
             /\ pc' = "exited"
             /\ outcome' = "timeout"
             /\ exit_code' = Some(1)
        /\ Val(expires_in) <= 0 => polls' = 0 /\ pc' = "exited"
      ]_vars

\* C17 witness: with expires_in 3 and interval 2 the run timed out after two
\* polls that were both answered authorization_pending.
C17_Witness ==
    /\ script = "copilot"
    /\ expires_in = Some(3)
    /\ interval = Some(2)
    /\ polls = 2
    /\ ResultPending
    /\ outcome = "timeout"

-----------------------------------------------------------------------------
(* C18 - the two scripts at the exchange *)

\* C18: what follows the exchange response does not depend on the script: an
\* accepted response gives the response's secondary token and a run that ends
\* with status 0; a rejected response gives the same exit status whichever
\* script ran, and no file written.
C18_ScriptsAgreeOnExchange ==
    /\ (copilot_data # None /\ "token" \in DOMAIN Val(copilot_data)) =>
         /\ copilot_token = Some(Val(copilot_data)["token"])
         /\ pc = "exited" => exit_code = Some(0)
    /\ ExchangeRejected =>
         /\ saved = {}
         /\ \A s \in Scripts : exit_code = Some(ExchangeFailureStatus(s))

-----------------------------------------------------------------------------
(* C19 - a failed save *)

\* C19: after an accepted exchange the run, in either script, ends with
\* status 0 whether or not the files could be written; and once the
\* github-token file is written it keeps the primary token, also when the
\* writing of copilot-token.json fails afterwards.
C19_SaveFailureNotFatal ==
    /\ (copilot_data # None /\ "token" \in DOMAIN Val(copilot_data)
          /\ pc = "exited") =>
         /\ outcome \in {"saved", "not_saved"}
         /\ exit_code = Some(0)
    /\ outcome = "not_saved" =>
         /\ copilot_token # None
         /\ "copilot-token.json" \notin saved
    /\ "github-token" \in saved => file_github = github_token

\* C19 witness: the github-token file was written, the writing of
\* copilot-token.json failed half-way, and the run ended with status 0.
C19_Witness ==
    /\ outcome = "not_saved"
    /\ exit_code = Some(0)
    /\ saved = {"github-token"}
    /\ file_github = github_token
    /\ file_copilot = Some(TruncatedDocument)

====
